---- MODULE Spec2Model ----
(***************************************************************************)
(* DS9097 passive serial adapter / DS18B20 reader (digitemp.py).           *)
(*                                                                         *)
(* The model follows OneWireAdapter: the transport handle self.port, the   *)
(* reset pulse, the switch to data mode, the bit engine, the Search-ROM    *)
(* passes with their local variables, read_temperature and the batch loop  *)
(* of main.  The 1-Wire devices and the serial line are the environment:   *)
(* devices answer a read slot by pulling the line low (wired AND), the     *)
(* line may time out, and opening the device path may fail.                *)
(*                                                                         *)
(* A byte string returned by port.read(1) is a sequence of length 0 (the   *)
(* timeout) or 1.  A ROM code is a sequence of 8 bytes, a scratchpad one   *)
(* of 9 bytes.  A temperature is kept in sixteenths of a degree Celsius    *)
(* (temp_raw * 0.0625 is exact in binary floating point for 16-bit         *)
(* temp_raw); None is the empty sequence.                                  *)
(***************************************************************************)
EXTENDS Integers, Sequences, FiniteSets, TLC

VARIABLES
  pc,                \* position of the running call
  port,              \* self.port: the serial handle, open or closed, and its baudrate
  channels,          \* number of transport channels currently open on the device path
  response,          \* reset(): the bytes read after the reset pulse (last call)
  reset_ret,         \* reset(): the value returned by the last call
  bus,               \* environment: ROM codes of the devices on the bus
  active,            \* environment: devices still selected in the running search pass
  noise,             \* environment: a wrong reading of the bus is still to come
  devices,           \* search_rom: devices
  last_discrepancy,  \* search_rom: last_discrepancy
  last_device,       \* search_rom: last_device
  rom,               \* search_rom: rom of the running pass
  discrepancy,       \* search_rom: discrepancy
  bit_pos,           \* search_rom: bit_pos
  passes,            \* number of passes started (a pass begins with its reset)
  sensors,           \* main: sensors read from the configuration
  idx,               \* main: index of the batch loop
  attempts,          \* main: <<idx, temp_c>> of every read_temperature call made
  scratchpad,        \* read_temperature: scratchpad
  temp_c,            \* read_temperature: the value returned
  log,               \* bus operations of the running call, in order
  unhandled,         \* an exception left search_rom / read_temperature
  prev_rom,          \* history: rom as the previous search pass left it
  chose0,            \* history: positions where the running pass read (0,0) and wrote 0
  branches,          \* history: <<bits so far, bit_pos, direction>> of every (0,0) of the run
  io,                \* history: the state of the handle at every exchange on the line
  crc_data,          \* crc8: data of the call
  crc_ret            \* crc8: the values returned by the calls made, in order

vars == << pc, port, channels, response, reset_ret, bus, active, noise, devices,
           last_discrepancy, last_device, rom, discrepancy, bit_pos, passes,
           sensors, idx, attempts, scratchpad, temp_c, log, unhandled,
           prev_rom, chose0, branches, io, crc_data, crc_ret >>

searchVars == << devices, last_discrepancy, last_device, rom, discrepancy, bit_pos >>
tempVars == << sensors, idx, attempts, scratchpad, temp_c >>
histVars == << prev_rom, chose0, branches >>
crcVars == << crc_data, crc_ret >>

(***************************************************************************)
(* Bounds of the model.                                                    *)
(***************************************************************************)
MaxSerial == 3       \* serial numbers 0..MaxSerial per family code
MaxDevices == 3      \* devices on the bus
MaxPasses == 5       \* search passes followed before the model stops looking
MaxSensors == 2      \* sensors in the configuration

(***************************************************************************)
(* CRC-8                                                                   *)
(***************************************************************************)
CRC8_TABLE ==
  << 0, 94, 188, 226, 97, 63, 221, 131, 194, 156, 126, 32, 163, 253, 31, 65,
     157, 195, 33, 127, 252, 162, 64, 30, 95, 1, 227, 189, 62, 96, 130, 220,
     35, 125, 159, 193, 66, 28, 254, 160, 225, 191, 93, 3, 128, 222, 60, 98,
     190, 224, 2, 92, 223, 129, 99, 61, 124, 34, 192, 158, 29, 67, 161, 255,
     70, 24, 250, 164, 39, 121, 155, 197, 132, 218, 56, 102, 229, 187, 89, 7,
     219, 133, 103, 57, 186, 228, 6, 88, 25, 71, 165, 251, 120, 38, 196, 154,
     101, 59, 217, 135, 4, 90, 184, 230, 167, 249, 27, 69, 198, 152, 122, 36,
     248, 166, 68, 26, 153, 199, 37, 123, 58, 100, 134, 216, 91, 5, 231, 185,
     140, 210, 48, 110, 237, 179, 81, 15, 78, 16, 242, 172, 47, 113, 147, 205,
     17, 79, 173, 243, 112, 46, 204, 146, 211, 141, 111, 49, 178, 236, 14, 80,
     175, 241, 19, 77, 206, 144, 114, 44, 109, 51, 209, 143, 12, 82, 176, 238,
     50, 108, 142, 208, 83, 13, 239, 177, 240, 174, 76, 18, 145, 207, 45, 115,
     202, 148, 118, 40, 171, 245, 23, 73, 8, 86, 180, 234, 105, 55, 213, 139,
     87, 9, 235, 181, 54, 104, 138, 212, 149, 203, 41, 119, 244, 170, 72, 22,
     233, 183, 85, 11, 136, 214, 52, 106, 43, 117, 151, 201, 74, 20, 246, 168,
     116, 42, 200, 150, 21, 75, 169, 247, 182, 232, 10, 84, 215, 137, 107, 53 >>

\* a ^ b on naturals
RECURSIVE BitXor(_, _)
BitXor(a, b) ==
  IF a = 0 THEN b
  ELSE IF b = 0 THEN a
  ELSE ((a + b) % 2) + 2 * BitXor(a \div 2, b \div 2)

\* (a variant of crc8_loop that adds the byte to the value so far)
RECURSIVE crc8_loop_Add(_, _, _)
crc8_loop_Add(crc, data, i) ==
  IF i > Len(data) THEN crc
  ELSE crc8_loop_Add(CRC8_TABLE[((crc + data[i]) % 256) + 1], data, i + 1)

\* the loop of crc8 from element i on, crc being the value so far
RECURSIVE crc8_loop(_, _, _)
crc8_loop(crc, data, i) ==
  IF i > Len(data) THEN crc
  ELSE crc8_loop(CRC8_TABLE[BitXor(crc, data[i]) + 1], data, i + 1)

crc8(data) == crc8_loop(0, data, 1)

(***************************************************************************)
(* Bits of a byte list: (rom[bit_pos // 8] >> (bit_pos % 8)) & 1 and       *)
(* rom[bit_pos // 8] |= 1 << (bit_pos % 8).                                *)
(***************************************************************************)
GetBit(bytes, pos) == (bytes[(pos \div 8) + 1] \div (2 ^ (pos % 8))) % 2

SetBit(bytes, pos) ==
  IF GetBit(bytes, pos) = 1 THEN bytes
  ELSE [bytes EXCEPT ![(pos \div 8) + 1] = @ + 2 ^ (pos % 8)]

ZeroRom == << 0, 0, 0, 0, 0, 0, 0, 0 >>

(***************************************************************************)
(* Environment: the devices on the bus and the serial line.                *)
(***************************************************************************)
Families == {40, 59}           \* 0x28 (DS18B20), 0x3B (DS1825)

\* a ROM code: family code, serial number, CRC-8 of the first seven bytes
MkRom(family, serial) ==
  LET body == << family, serial, 0, 0, 0, 0, 0 >>
  IN  Append(body, crc8(body))

RomPool == { MkRom(f, s) : f \in Families, s \in 0..MaxSerial }

Buses == { b \in SUBSET RomPool : Cardinality(b) >= 1 /\ Cardinality(b) <= MaxDevices }

\* what the adapter reads back in a slot a device holds low: not 0xFF
LowBytes == {0, 254}

\* the byte string read back in a read slot (0xFF was written)
ReadSlot(pulled, low) == IF pulled THEN << low >> ELSE << 255 >>

\* wired AND: the slot of the bit is pulled low by an active device whose bit
\* is 0, the slot of the complement by one whose bit is 1
PullsBit(act, pos) == \E d \in act : GetBit(d, pos) = 0
PullsComp(act, pos) == \E d \in act : GetBit(d, pos) = 1

\* devices drop out of the pass when the direction written is not their bit
StillActive(act, pos, direction) == { d \in act : GetBit(d, pos) = direction }

Present == { << 16 >>, << 128 >>, << 224 >> }     \* answers of a bus with devices
AnyResponse == { << >> } \cup { << v >> : v \in 0..255 }

(***************************************************************************)
(* Transport handle                                                        *)
(***************************************************************************)
NoPort == [obj |-> "None", is_open |-> FALSE, baudrate |-> 0]

\* if self.port: self.port.close()
ClosePort(p) == IF p.obj = "None" THEN p ELSE [p EXCEPT !.is_open = FALSE]

\* (a variant of ClosedChannels for a handle that is dropped without close())
ClosedChannels_Leak(p, ch) == ch

ClosedChannels(p, ch) == IF p.is_open THEN ch - 1 ELSE ch

\* serial.Serial(self.device_path, baudrate=..., timeout=1)
OpenPort(baud) == [obj |-> "Serial", is_open |-> TRUE, baudrate |-> baud]

\* (a variant of InWindow with the bounds excluded)
InWindow_Exclusive(presence) == 16 < presence /\ presence < 224

\* return 0x10 <= presence <= 0xE0
InWindow(presence) == 16 <= presence /\ presence <= 224

\* reset(): the handle, the open channels, the bytes read and the value returned;
\* open_ok says whether the device path can be opened, rx is what the line
\* answers to the reset pulse
reset(p, ch, open_ok, rx) ==
  LET closed == ClosePort(p)
      nch    == ClosedChannels(p, ch)
  IN  IF ~open_ok
      THEN [port |-> closed, channels |-> nch, response |-> << >>, ret |-> FALSE]
      ELSE [port |-> OpenPort(9600), channels |-> nch + 1, response |-> rx,
            ret |-> IF Len(rx) = 0 THEN FALSE ELSE InWindow(rx[1])]

\* (a variant of switch_to_data_mode that goes on with the handle of reset)
switch_to_data_mode_KeepsSpeed(p, ch, open_ok) ==
  [port |-> p, channels |-> ch, raised |-> FALSE]

\* switch_to_data_mode(): serial.Serial raises when the path cannot be opened
switch_to_data_mode(p, ch, open_ok) ==
  LET closed == ClosePort(p)
      nch    == ClosedChannels(p, ch)
  IN  IF ~open_ok
      THEN [port |-> closed, channels |-> nch, raised |-> TRUE]
      ELSE [port |-> OpenPort(115200), channels |-> nch + 1, raised |-> FALSE]

(***************************************************************************)
(* Bit engine                                                              *)
(***************************************************************************)
\* touch_bit: the bit observed, rx being the bytes read back
touch_bit(bit, rx) ==
  IF Len(rx) = 0 THEN 0
  ELSE IF rx[1] = 255 THEN 1 ELSE 0

\* touch_byte from bit i on: rxs[i + 1] is read back in the slot of bit i
RECURSIVE touch_byte_loop(_, _, _, _)
touch_byte_loop(byte_val, rxs, i, result) ==
  IF i = 8 THEN result
  ELSE LET bit      == (byte_val \div (2 ^ i)) % 2
           read_bit == touch_bit(bit, rxs[i + 1])
       IN  touch_byte_loop(byte_val, rxs, i + 1,
                           IF read_bit = 1 THEN result + 2 ^ i ELSE result)

touch_byte(byte_val, rxs) == touch_byte_loop(byte_val, rxs, 0, 0)

\* read_byte: touch_byte(0xFF)
read_byte(rxs) == touch_byte(255, rxs)

\* touch_bit: the byte written for a bit
tx_byte(bit) == IF bit # 0 THEN 255 ELSE 0

\* touch_byte: the eight bytes written for byte_val, in the order written
TxSlots(byte_val) == [i \in 1..8 |-> tx_byte((byte_val \div (2 ^ (i - 1))) % 2)]

\* environment: the byte a device takes from eight write slots, the first
\* slot being its least significant bit
OnWire(slots) ==
  LET bitval(i) == IF slots[i] = 255 THEN 2 ^ (i - 1) ELSE 0
  IN  bitval(1) + bitval(2) + bitval(3) + bitval(4)
      + bitval(5) + bitval(6) + bitval(7) + bitval(8)

\* write_byte, as the bus operation the devices see
write_byte(byte_val) == [op |-> "write", arg |-> OnWire(TxSlots(byte_val))]

Entry(o, a) == [op |-> o, arg |-> a]

\* self.port.write(...) on the handle p: what is written ("marker" for the
\* 0xF0 of reset, "touch" for a bit slot), the state of the handle, and the
\* value the last finished reset() returned
Exchange(what, p, ret) ==
  [what |-> what, is_open |-> p.is_open, baudrate |-> p.baudrate, reset_ret |-> ret]

(***************************************************************************)
(* reset(), called by search_rom and by read_temperature                   *)
(***************************************************************************)
AfterReset(at) ==
  CASE at = "s_reset"  -> "s_after_reset"
    [] at = "t_reset1" -> "t_after_reset1"
    [] at = "t_reset2" -> "t_after_reset2"

Reset(responses, opens) ==
  /\ pc \in {"s_reset", "t_reset1", "t_reset2"}
  /\ pc = "s_reset" => passes < MaxPasses
  /\ \E open_ok \in opens, rx \in responses :
       LET r == reset(port, channels, open_ok, rx)
       IN  /\ port' = r.port
           /\ channels' = r.channels
           /\ response' = r.response
           /\ reset_ret' = r.ret
           /\ log' = Append(log, Entry("reset", IF r.ret THEN 1 ELSE 0))
           /\ io' = IF open_ok
                    THEN io \cup { Exchange("marker", r.port, reset_ret) }
                    ELSE io
  /\ pc' = AfterReset(pc)
  /\ passes' = IF pc = "s_reset" THEN passes + 1 ELSE passes
  /\ UNCHANGED << bus, active, noise, searchVars, tempVars, unhandled, histVars,
                  crcVars >>

\* (a variant of Aborts that goes on after a failed reset)
Aborts_Never(ret) == FALSE

\* if not self.reset(): break / return None
Aborts(ret) == ~ret

(***************************************************************************)
(* search_rom                                                              *)
(***************************************************************************)
\* the branch taken at a discrepancy (bit == 0 and comp_bit == 0)
DiscrepancyDirection(pos, last, r) ==
  IF pos = last THEN 1
  ELSE IF pos > last THEN 0
  ELSE GetBit(r, pos)

\* (a variant of DiscrepancyMark that keeps the first position marked in the pass)
DiscrepancyMark_KeepsFirst(pos, last, r, disc) ==
  IF disc # 0 THEN disc
  ELSE IF pos = last THEN disc
  ELSE IF pos > last THEN pos
  ELSE IF GetBit(r, pos) = 0 THEN pos ELSE disc

\* the value of discrepancy after a discrepancy at pos
DiscrepancyMark(pos, last, r, disc) ==
  IF pos = last THEN disc
  ELSE IF pos > last THEN pos
  ELSE IF GetBit(r, pos) = 0 THEN pos ELSE disc

\* (a variant of Validated that collects the ROM without looking at its CRC)
Validated_Unchecked(devs, r) == Append(devs, r)

\* if crc8(rom) == 0: devices.append(rom)
Validated(devs, r) == IF crc8(r) = 0 THEN Append(devs, r) ELSE devs

\* lines 142-151: the result of reset(), the switch to data mode, SEARCH_ROM
SearchStartPass(opens) ==
  /\ pc = "s_after_reset"
  /\ response' = << >>
  /\ IF Aborts(reset_ret)
     THEN /\ pc' = "s_return"
          /\ UNCHANGED << port, channels, active, rom, discrepancy, bit_pos, log,
                          unhandled, prev_rom, chose0, io >>
     ELSE \E open_ok \in opens :
            LET s == switch_to_data_mode(port, channels, open_ok)
            IN  /\ port' = s.port
                /\ channels' = s.channels
                /\ IF s.raised
                   THEN /\ unhandled' = TRUE
                        /\ pc' = "raised"
                        /\ UNCHANGED << active, rom, discrepancy, bit_pos, log,
                                        prev_rom, chose0, io >>
                   ELSE /\ log' = log \o << Entry("open_data", 115200),
                                            write_byte(240) >>
                        /\ io' = io \cup { Exchange("touch", s.port, reset_ret) }
                        /\ prev_rom' = rom
                        /\ chose0' = {}
                        /\ rom' = ZeroRom
                        /\ discrepancy' = 0
                        /\ bit_pos' = 0
                        /\ active' = bus
                        /\ pc' = "s_bit"
                        /\ UNCHANGED unhandled
  /\ UNCHANGED << reset_ret, bus, noise, devices, last_discrepancy, last_device,
                  passes, tempVars, branches, crcVars >>

\* lines 158-189 for the bits read at bit_pos
SearchBitStep(bit, comp_bit) ==
  IF bit = 1 /\ comp_bit = 1
  THEN /\ last_device' = TRUE
       /\ pc' = "s_pass_end"
       /\ UNCHANGED << rom, discrepancy, bit_pos, active, chose0, branches >>
  ELSE LET search_direction ==
             IF bit = 0 /\ comp_bit = 0
             THEN DiscrepancyDirection(bit_pos, last_discrepancy, rom)
             ELSE bit
       IN  /\ discrepancy' =
                IF bit = 0 /\ comp_bit = 0
                THEN DiscrepancyMark(bit_pos, last_discrepancy, rom, discrepancy)
                ELSE discrepancy
           /\ active' = StillActive(active, bit_pos, search_direction)
           /\ rom' = IF search_direction = 1 THEN SetBit(rom, bit_pos) ELSE rom
           /\ bit_pos' = bit_pos + 1
           /\ pc' = IF bit_pos + 1 = 64 THEN "s_pass_end" ELSE "s_bit"
           /\ chose0' = IF bit = 0 /\ comp_bit = 0 /\ search_direction = 0
                        THEN chose0 \cup { bit_pos }
                        ELSE chose0
           /\ branches' = IF bit = 0 /\ comp_bit = 0
                          THEN branches \cup { << rom, bit_pos, search_direction >> }
                          ELSE branches
           /\ UNCHANGED last_device

\* one turn of the loop over bit_pos on a bus that answers as its devices do
SearchBit ==
  /\ pc = "s_bit"
  /\ \E low \in LowBytes :
       SearchBitStep(touch_bit(1, ReadSlot(PullsBit(active, bit_pos), low)),
                     touch_bit(1, ReadSlot(PullsComp(active, bit_pos), low)))
  /\ io' = io \cup { Exchange("touch", port, reset_ret) }
  /\ UNCHANGED << port, channels, response, reset_ret, bus, noise, devices,
                  last_discrepancy, passes, tempVars, log, unhandled, prev_rom,
                  crcVars >>

\* (a variant of SearchPassEnd that also collects the ROM of a pass cut short)
SearchPassEnd_KeepsPartial ==
  /\ pc = "s_pass_end"
  /\ IF ~last_device
     THEN /\ last_discrepancy' = discrepancy
          /\ last_device' = (discrepancy = 0)
          /\ devices' = Validated(devices, rom)
     ELSE /\ devices' = Append(devices, rom)
          /\ UNCHANGED << last_discrepancy, last_device >>
  /\ pc' = IF last_device' THEN "s_return" ELSE "s_reset"
  /\ UNCHANGED << port, channels, response, reset_ret, bus, active, noise, rom,
                  discrepancy, bit_pos, passes, tempVars, log, unhandled, histVars,
                  io, crcVars >>

\* lines 191-201 and the test of the while loop
SearchPassEnd ==
  /\ pc = "s_pass_end"
  /\ IF ~last_device
     THEN /\ last_discrepancy' = discrepancy
          /\ last_device' = (discrepancy = 0)
          /\ devices' = Validated(devices, rom)
     ELSE UNCHANGED << last_discrepancy, last_device, devices >>
  /\ pc' = IF last_device' THEN "s_return" ELSE "s_reset"
  /\ UNCHANGED << port, channels, response, reset_ret, bus, active, noise, rom,
                  discrepancy, bit_pos, passes, tempVars, log, unhandled, histVars,
                  io, crcVars >>

(***************************************************************************)
(* read_temperature                                                        *)
(***************************************************************************)
None == << >>

\* MATCH_ROM and the ROM address: write_byte(0x55), write_byte(byte) for byte in rom
MatchRom(r) == << write_byte(85) >> \o [i \in 1..8 |-> write_byte(r[i])]

\* (a variant of ConvertOps without the sleep)
ConvertOps_NoWait(r) ==
  << [op |-> "open_data", arg |-> 115200] >> \o MatchRom(r) \o << write_byte(68) >>

\* lines 212-225: data mode, MATCH_ROM, the ROM address, CONVERT_T, the sleep
ConvertOps(r) ==
  << Entry("open_data", 115200) >> \o MatchRom(r)
     \o << write_byte(68), Entry("wait", 750) >>

\* lines 232-242: data mode, MATCH_ROM, the ROM address, READ_SCRATCHPAD
ScratchpadOps(r) ==
  << Entry("open_data", 115200) >> \o MatchRom(r) \o << write_byte(190) >>

\* temp_raw = (scratchpad[1] << 8) | scratchpad[0]
TempRaw(sp) == sp[2] * 256 + sp[1]

\* (a variant of Signed16 that forgets the + 1)
Signed16_OnesComplement(temp_raw) ==
  IF (temp_raw \div 32768) % 2 = 1
  THEN -(BitXor(temp_raw, 65535))
  ELSE temp_raw

\* if temp_raw & 0x8000: temp_raw = -((temp_raw ^ 0xFFFF) + 1)
Signed16(temp_raw) ==
  IF (temp_raw \div 32768) % 2 = 1
  THEN -(BitXor(temp_raw, 65535) + 1)
  ELSE temp_raw

\* (a variant of Decoded that does not look at the CRC)
Decoded_Unchecked(sp) ==
  LET raw == sp[2] * 256 + sp[1]
  IN  << IF raw >= 32768 THEN raw - 65536 ELSE raw >>

\* lines 249-264: the value returned for the scratchpad read, in sixteenths
\* of a degree (temp_raw * 0.0625), or None
Decoded(sp) ==
  IF crc8(sp) # 0 THEN None ELSE << Signed16(TempRaw(sp)) >>

\* environment: the read slots in which a device sends byte v
SendSlots(v, low) == [i \in 1..8 |-> ReadSlot((v \div (2 ^ (i - 1))) % 2 = 0, low)]

\* environment: eight read slots in which nothing is read back
TimedOutSlots == [i \in 1..8 |-> << >>]

\* environment: a DS18B20 scratchpad with temperature bytes b0, b1:
\* TH, TL, configuration, reserved bytes, CRC-8 of the first eight
MkScratchpad(b0, b1) ==
  LET body == << b0, b1, 75, 70, 127, 255, 12, 16 >>
  IN  Append(body, crc8(body))

\* environment: a scratchpad whose last byte arrives corrupted
Corrupted(sp) == [sp EXCEPT ![9] = BitXor(@, 1)]

\* environment: what may be sent in reply to READ_SCRATCHPAD: 85 degrees,
\* -10.125 degrees, 0.5 degrees, each also with a corrupted last byte, and
\* an idle line (all ones)
Scratchpads ==
  LET good == { MkScratchpad(80, 5), MkScratchpad(94, 255), MkScratchpad(8, 0) }
  IN  good \cup { Corrupted(sp) : sp \in good }
           \cup { << 255, 255, 255, 255, 255, 255, 255, 255, 255 >> }

\* environment: the read slots of the nine scratchpad bytes
Wires ==
  { [k \in 1..9 |-> SendSlots(sp[k], low)] : sp \in Scratchpads, low \in LowBytes }
    \cup { [k \in 1..9 |-> TimedOutSlots] }

\* for idx, rom in enumerate(sensors): temp_c = adapter.read_temperature(rom)
MainLoop ==
  /\ pc = "m_loop"
  /\ IF idx < Len(sensors)
     THEN /\ pc' = "t_reset1"
          /\ log' = << >>
          /\ scratchpad' = << >>
          /\ temp_c' = None
     ELSE /\ pc' = "m_return"
          /\ UNCHANGED << log, scratchpad, temp_c >>
  /\ UNCHANGED << port, channels, response, reset_ret, bus, active, noise,
                  searchVars, passes, sensors, idx, attempts, unhandled, histVars,
                  io, crcVars >>

\* lines 208-225: the result of the first reset(), MATCH_ROM, CONVERT_T, sleep
TempConvert(opens) ==
  /\ pc = "t_after_reset1"
  /\ response' = << >>
  /\ IF Aborts(reset_ret)
     THEN /\ temp_c' = None
          /\ pc' = "t_return"
          /\ UNCHANGED << port, channels, log, unhandled, io >>
     ELSE \E open_ok \in opens :
            LET s == switch_to_data_mode(port, channels, open_ok)
            IN  /\ port' = s.port
                /\ channels' = s.channels
                /\ IF s.raised
                   THEN /\ unhandled' = TRUE
                        /\ pc' = "raised"
                        /\ UNCHANGED << log, temp_c, io >>
                   ELSE /\ log' = log \o ConvertOps(sensors[idx + 1])
                        /\ io' = io \cup { Exchange("touch", s.port, reset_ret) }
                        /\ pc' = "t_reset2"
                        /\ UNCHANGED << unhandled, temp_c >>
  /\ UNCHANGED << reset_ret, bus, active, noise, searchVars, passes, sensors,
                  idx, attempts, scratchpad, histVars, crcVars >>

\* lines 228-247: the result of the second reset(), MATCH_ROM,
\* READ_SCRATCHPAD, the nine read_byte calls
TempReadScratchpad(opens) ==
  /\ pc = "t_after_reset2"
  /\ response' = << >>
  /\ IF Aborts(reset_ret)
     THEN /\ temp_c' = None
          /\ pc' = "t_return"
          /\ UNCHANGED << port, channels, log, unhandled, scratchpad, io >>
     ELSE \E open_ok \in opens :
            LET s == switch_to_data_mode(port, channels, open_ok)
            IN  /\ port' = s.port
                /\ channels' = s.channels
                /\ IF s.raised
                   THEN /\ unhandled' = TRUE
                        /\ pc' = "raised"
                        /\ UNCHANGED << log, temp_c, scratchpad, io >>
                   ELSE /\ \E wire \in Wires :
                             scratchpad' = [k \in 1..9 |-> read_byte(wire[k])]
                        /\ log' = log \o ScratchpadOps(sensors[idx + 1])
                                      \o [k \in 1..9 |-> Entry("read", scratchpad'[k])]
                        /\ io' = io \cup { Exchange("touch", s.port, reset_ret) }
                        /\ pc' = "t_validate"
                        /\ UNCHANGED << unhandled, temp_c >>
  /\ UNCHANGED << reset_ret, bus, active, noise, searchVars, passes, sensors,
                  idx, attempts, histVars, crcVars >>

\* lines 249-264: CRC validation and decoding
TempDecode ==
  /\ pc = "t_validate"
  /\ temp_c' = Decoded(scratchpad)
  /\ pc' = "t_return"
  /\ UNCHANGED << port, channels, response, reset_ret, bus, active, noise,
                  searchVars, passes, sensors, idx, attempts, scratchpad, log,
                  unhandled, histVars, io, crcVars >>

\* (a variant of MainCollect that leaves the loop at the first None, as the
\* read of a single sensor does)
MainCollect_StopOnFailure ==
  /\ pc = "t_return"
  /\ attempts' = Append(attempts, [idx |-> idx, temp_c |-> temp_c])
  /\ idx' = idx + 1
  /\ pc' = IF temp_c = None THEN "m_return" ELSE "m_loop"
  /\ UNCHANGED << port, channels, response, reset_ret, bus, active, noise,
                  searchVars, passes, sensors, scratchpad, temp_c, log, unhandled,
                  histVars, io, crcVars >>

\* lines 410-417: if temp_c is None: continue; otherwise the report line
MainCollect ==
  /\ pc = "t_return"
  /\ attempts' = Append(attempts, [idx |-> idx, temp_c |-> temp_c])
  /\ idx' = idx + 1
  /\ pc' = "m_loop"
  /\ UNCHANGED << port, channels, response, reset_ret, bus, active, noise,
                  searchVars, passes, sensors, scratchpad, temp_c, log, unhandled,
                  histVars, io, crcVars >>

\* (a variant of WithExit that leaves the handle as it is)
WithExit_NoClose ==
  /\ pc \in {"s_return", "m_return", "raised"}
  /\ pc' = IF pc = "raised" THEN "traceback" ELSE "exit"
  /\ UNCHANGED << port, channels, response, reset_ret, bus, active, noise,
                  searchVars, passes, tempVars, log, unhandled, histVars, io,
                  crcVars >>

\* __exit__ at the end of the with block of main, also when an exception
\* passes through it
WithExit ==
  /\ pc \in {"s_return", "m_return", "raised"}
  /\ port' = ClosePort(port)
  /\ channels' = ClosedChannels(port, channels)
  /\ pc' = IF pc = "raised" THEN "traceback" ELSE "exit"
  /\ UNCHANGED << response, reset_ret, bus, active, noise, searchVars, passes,
                  tempVars, log, unhandled, histVars, io, crcVars >>

(***************************************************************************)
(* search_rom on a bus of devices that all answer                          *)
(***************************************************************************)
Init ==
  /\ pc = "s_reset"
  /\ port = NoPort
  /\ channels = 0
  /\ response = << >>
  /\ reset_ret = FALSE
  /\ bus \in Buses
  /\ active = {}
  /\ noise = FALSE
  /\ devices = << >>
  /\ last_discrepancy = 0
  /\ last_device = FALSE
  /\ rom = ZeroRom
  /\ discrepancy = 0
  /\ bit_pos = 0
  /\ passes = 0
  /\ sensors = << >>
  /\ idx = 0
  /\ attempts = << >>
  /\ scratchpad = << >>
  /\ temp_c = None
  /\ log = << >>
  /\ unhandled = FALSE
  /\ prev_rom = ZeroRom
  /\ chose0 = {}
  /\ branches = {}
  /\ io = {}
  /\ crc_data = << >>
  /\ crc_ret = << >>

Next ==
  \/ Reset(Present, {TRUE})
  \/ SearchStartPass({TRUE})
  \/ SearchBit
  \/ SearchPassEnd

Spec == Init /\ [][Next]_vars

(***************************************************************************)
(* search_rom on a bus whose codes part at several positions (SpecDeep):   *)
(* devices of one family whose serial numbers are 0 and powers of two, so  *)
(* that one pass meets a discrepancy at each of the positions 8, 9, ...    *)
(***************************************************************************)
MaxDepth == 2        \* serial numbers 0, 1, 2, .., 2^MaxDepth

DeepPool == { MkRom(40, 0) } \cup { MkRom(40, 2 ^ k) : k \in 0..MaxDepth }

DeepBuses == (SUBSET DeepPool) \ { {} }

InitDeep ==
  /\ pc = "s_reset"
  /\ port = NoPort
  /\ channels = 0
  /\ response = << >>
  /\ reset_ret = FALSE
  /\ bus \in DeepBuses
  /\ active = {}
  /\ noise = FALSE
  /\ devices = << >>
  /\ last_discrepancy = 0
  /\ last_device = FALSE
  /\ rom = ZeroRom
  /\ discrepancy = 0
  /\ bit_pos = 0
  /\ passes = 0
  /\ sensors = << >>
  /\ idx = 0
  /\ attempts = << >>
  /\ scratchpad = << >>
  /\ temp_c = None
  /\ log = << >>
  /\ unhandled = FALSE
  /\ prev_rom = ZeroRom
  /\ chose0 = {}
  /\ branches = {}
  /\ io = {}
  /\ crc_data = << >>
  /\ crc_ret = << >>

NextDeep ==
  \/ Reset(Present, {TRUE})
  \/ SearchStartPass({TRUE})
  \/ SearchBit
  \/ SearchPassEnd

SpecDeep == InitDeep /\ [][NextDeep]_vars

(***************************************************************************)
(* search_rom on a line that may misbehave (SpecNoise): a reset may find   *)
(* no presence, the device path may fail to open, the bus may be empty,    *)
(* and in one turn of the bit loop the adapter may read something else     *)
(* than what the devices put on the line (a timeout, 0xFF, or a low byte). *)
(***************************************************************************)
MaxNoisyDevices == 2

SomeResponses == { << >>, << 0 >>, << 15 >>, << 16 >>, << 224 >>, << 225 >>, << 255 >> }

NoiseRx == { << >>, << 255 >>, << 0 >> }

NoisyBuses ==
  { b \in SUBSET { MkRom(40, s) : s \in 0..MaxSerial } :
      Cardinality(b) <= MaxNoisyDevices }

\* one turn of the loop over bit_pos in which the line does not carry the
\* devices' answer
SearchBitNoise ==
  /\ pc = "s_bit"
  /\ noise
  /\ noise' = FALSE
  /\ \E rx1 \in NoiseRx, rx2 \in NoiseRx :
       SearchBitStep(touch_bit(1, rx1), touch_bit(1, rx2))
  /\ io' = io \cup { Exchange("touch", port, reset_ret) }
  /\ UNCHANGED << port, channels, response, reset_ret, bus, devices,
                  last_discrepancy, passes, tempVars, log, unhandled, prev_rom,
                  crcVars >>

InitNoise ==
  /\ pc = "s_reset"
  /\ port = NoPort
  /\ channels = 0
  /\ response = << >>
  /\ reset_ret = FALSE
  /\ bus \in NoisyBuses
  /\ active = {}
  /\ noise \in BOOLEAN
  /\ devices = << >>
  /\ last_discrepancy = 0
  /\ last_device = FALSE
  /\ rom = ZeroRom
  /\ discrepancy = 0
  /\ bit_pos = 0
  /\ passes = 0
  /\ sensors = << >>
  /\ idx = 0
  /\ attempts = << >>
  /\ scratchpad = << >>
  /\ temp_c = None
  /\ log = << >>
  /\ unhandled = FALSE
  /\ prev_rom = ZeroRom
  /\ chose0 = {}
  /\ branches = {}
  /\ io = {}
  /\ crc_data = << >>
  /\ crc_ret = << >>

NextNoise ==
  \/ Reset(SomeResponses, BOOLEAN)
  \/ SearchStartPass(BOOLEAN)
  \/ SearchBit
  \/ SearchBitNoise
  \/ SearchPassEnd

SpecNoise == InitNoise /\ [][NextNoise]_vars

(***************************************************************************)
(* main (SpecMain): the walk over the bus (-w, -i) or the batch read of    *)
(* the configured sensors, on a line whose resets may find no presence     *)
(* and whose device path may fail to open.                                 *)
(***************************************************************************)
\* the ROM lines of the configuration
SensorLists ==
  { [i \in 1..k |-> MkRom(40, (i - 1) % (MaxSerial + 1))] : k \in 1..MaxSensors }

Range(f) == { f[i] : i \in 1..Len(f) }

InitMain ==
  /\ port = NoPort
  /\ channels = 0
  /\ response = << >>
  /\ reset_ret = FALSE
  /\ active = {}
  /\ noise = FALSE
  /\ devices = << >>
  /\ last_discrepancy = 0
  /\ last_device = FALSE
  /\ rom = ZeroRom
  /\ discrepancy = 0
  /\ bit_pos = 0
  /\ passes = 0
  /\ idx = 0
  /\ attempts = << >>
  /\ scratchpad = << >>
  /\ temp_c = None
  /\ log = << >>
  /\ unhandled = FALSE
  /\ prev_rom = ZeroRom
  /\ chose0 = {}
  /\ branches = {}
  /\ io = {}
  /\ crc_data = << >>
  /\ crc_ret = << >>
  /\ \/ /\ pc = "s_reset"
        /\ bus \in Buses
        /\ sensors = << >>
     \/ /\ pc = "m_loop"
        /\ sensors \in SensorLists
        /\ bus = Range(sensors)

NextMain ==
  \/ Reset(AnyResponse, BOOLEAN)
  \/ SearchStartPass(BOOLEAN)
  \/ SearchBit
  \/ SearchPassEnd
  \/ MainLoop
  \/ TempConvert(BOOLEAN)
  \/ TempReadScratchpad(BOOLEAN)
  \/ TempDecode
  \/ MainCollect
  \/ WithExit

SpecMain == InitMain /\ [][NextMain]_vars

(***************************************************************************)
(* One adapter, called in any order (SpecApi): reset, switch_to_data_mode, *)
(* search_rom and read_temperature are called one after the other on the   *)
(* same adapter, each call finding the handle as the call before left it.  *)
(* The caller keeps no result, and the local variables of a call end with  *)
(* the call.                                                               *)
(***************************************************************************)
\* adapter.reset()
ApiReset(responses, opens) ==
  /\ pc = "api"
  /\ \E open_ok \in opens, rx \in responses :
       LET r == reset(port, channels, open_ok, rx)
       IN  /\ port' = r.port
           /\ channels' = r.channels
  /\ UNCHANGED << pc, response, reset_ret, bus, active, noise, searchVars, passes,
                  tempVars, log, unhandled, histVars, io, crcVars >>

\* adapter.switch_to_data_mode()
ApiSwitch(opens) ==
  /\ pc = "api"
  /\ \E open_ok \in opens :
       LET s == switch_to_data_mode(port, channels, open_ok)
       IN  /\ port' = s.port
           /\ channels' = s.channels
           /\ unhandled' = (unhandled \/ s.raised)
  /\ UNCHANGED << pc, response, reset_ret, bus, active, noise, searchVars, passes,
                  tempVars, log, histVars, io, crcVars >>

\* adapter.search_rom()
ApiSearchRom ==
  /\ pc = "api"
  /\ pc' = "s_reset"
  /\ UNCHANGED << port, channels, response, reset_ret, bus, active, noise,
                  searchVars, passes, tempVars, log, unhandled, histVars, io,
                  crcVars >>

\* adapter.read_temperature(sensors[0])
ApiReadTemperature ==
  /\ pc = "api"
  /\ pc' = "t_reset1"
  /\ UNCHANGED << port, channels, response, reset_ret, bus, active, noise,
                  searchVars, passes, tempVars, log, unhandled, histVars, io,
                  crcVars >>

\* the call is over, by a return or by an exception the caller catches
ApiReturn ==
  /\ pc \in {"s_return", "t_return", "raised"}
  /\ pc' = "api"
  /\ response' = << >>
  /\ reset_ret' = FALSE
  /\ active' = {}
  /\ devices' = << >>
  /\ last_discrepancy' = 0
  /\ last_device' = FALSE
  /\ rom' = ZeroRom
  /\ discrepancy' = 0
  /\ bit_pos' = 0
  /\ passes' = 0
  /\ scratchpad' = << >>
  /\ temp_c' = None
  /\ log' = << >>
  /\ prev_rom' = ZeroRom
  /\ chose0' = {}
  /\ branches' = {}
  /\ io' = {}
  /\ UNCHANGED << port, channels, bus, noise, sensors, idx, attempts, unhandled,
                  crcVars >>

InitApi ==
  /\ pc = "api"
  /\ port = NoPort
  /\ channels = 0
  /\ response = << >>
  /\ reset_ret = FALSE
  /\ bus \in NoisyBuses
  /\ active = {}
  /\ noise = FALSE
  /\ devices = << >>
  /\ last_discrepancy = 0
  /\ last_device = FALSE
  /\ rom = ZeroRom
  /\ discrepancy = 0
  /\ bit_pos = 0
  /\ passes = 0
  /\ sensors = << MkRom(40, 0) >>
  /\ idx = 0
  /\ attempts = << >>
  /\ scratchpad = << >>
  /\ temp_c = None
  /\ log = << >>
  /\ unhandled \in BOOLEAN
  /\ prev_rom = ZeroRom
  /\ chose0 = {}
  /\ branches = {}
  /\ io = {}
  /\ crc_data = << >>
  /\ crc_ret = << >>

NextApi ==
  \/ ApiReset(SomeResponses, BOOLEAN)
  \/ ApiSwitch(BOOLEAN)
  \/ ApiSearchRom
  \/ ApiReadTemperature
  \/ ApiReturn
  \/ Reset(SomeResponses, BOOLEAN)
  \/ SearchStartPass(BOOLEAN)
  \/ SearchBit
  \/ SearchPassEnd
  \/ TempConvert(BOOLEAN)
  \/ TempReadScratchpad(BOOLEAN)
  \/ TempDecode

SpecApi == InitApi /\ [][NextApi]_vars

(***************************************************************************)
(* The end of read_temperature for every pair of temperature bytes         *)
(* (SpecDecode): the call has read a scratchpad with a valid CRC from the  *)
(* sensor and validates and decodes it.                                    *)
(***************************************************************************)
InitDecode ==
  /\ pc = "t_validate"
  /\ port = OpenPort(115200)
  /\ channels = 1
  /\ response = << >>
  /\ reset_ret = TRUE
  /\ sensors = << MkRom(40, 0) >>
  /\ bus = Range(sensors)
  /\ active = {}
  /\ noise = FALSE
  /\ devices = << >>
  /\ last_discrepancy = 0
  /\ last_device = FALSE
  /\ rom = ZeroRom
  /\ discrepancy = 0
  /\ bit_pos = 0
  /\ passes = 0
  /\ idx = 0
  /\ attempts = << >>
  /\ \E b0 \in 0..255, b1 \in 0..255 : scratchpad = MkScratchpad(b0, b1)
  /\ temp_c = None
  /\ log = << Entry("reset", 1) >> \o ConvertOps(sensors[1])
             \o << Entry("reset", 1) >> \o ScratchpadOps(sensors[1])
             \o [k \in 1..9 |-> Entry("read", scratchpad[k])]
  /\ unhandled = FALSE
  /\ prev_rom = ZeroRom
  /\ chose0 = {}
  /\ branches = {}
  /\ io = {}
  /\ crc_data = << >>
  /\ crc_ret = << >>

NextDecode == TempDecode

SpecDecode == InitDecode /\ [][NextDecode]_vars

(***************************************************************************)
(* crc8 called on a byte sequence and then on the sequence followed by the *)
(* value returned (SpecCrc).  The sequences are the first seven bytes of   *)
(* the ROM codes, the first eight bytes of the scratchpads, and short      *)
(* sequences of sample bytes followed by any one byte.                     *)
(***************************************************************************)
MaxCrcLen == 3       \* sample bytes in the sequences given to crc8

CrcSampleBytes == {0, 40, 255}

SeqsUpTo(S, n) == UNION { [1..k -> S] : k \in 0..n }

CrcInputs ==
  { p \o t : p \in SeqsUpTo(CrcSampleBytes, MaxCrcLen),
             t \in { << >> } \cup { << b >> : b \in 0..255 } }
    \cup { SubSeq(r, 1, 7) : r \in RomPool }
    \cup { SubSeq(sp, 1, 8) : sp \in Scratchpads }

\* crc = crc8(data)
CrcCall ==
  /\ pc = "c_call"
  /\ crc_ret' = << crc8(crc_data) >>
  /\ pc' = "c_append"
  /\ UNCHANGED << port, channels, response, reset_ret, bus, active, noise,
                  searchVars, passes, tempVars, log, unhandled, histVars, io,
                  crc_data >>

\* crc8(data + [crc])
CrcCallAppended ==
  /\ pc = "c_append"
  /\ crc_data' = Append(crc_data, crc_ret[1])
  /\ crc_ret' = Append(crc_ret, crc8(crc_data'))
  /\ pc' = "c_done"
  /\ UNCHANGED << port, channels, response, reset_ret, bus, active, noise,
                  searchVars, passes, tempVars, log, unhandled, histVars, io >>

InitCrc ==
  /\ pc = "c_call"
  /\ port = NoPort
  /\ channels = 0
  /\ response = << >>
  /\ reset_ret = FALSE
  /\ bus = {}
  /\ active = {}
  /\ noise = FALSE
  /\ devices = << >>
  /\ last_discrepancy = 0
  /\ last_device = FALSE
  /\ rom = ZeroRom
  /\ discrepancy = 0
  /\ bit_pos = 0
  /\ passes = 0
  /\ sensors = << >>
  /\ idx = 0
  /\ attempts = << >>
  /\ scratchpad = << >>
  /\ temp_c = None
  /\ log = << >>
  /\ unhandled = FALSE
  /\ prev_rom = ZeroRom
  /\ chose0 = {}
  /\ branches = {}
  /\ io = {}
  /\ crc_data \in CrcInputs
  /\ crc_ret = << >>

NextCrc ==
  \/ CrcCall
  \/ CrcCallAppended

SpecCrc == InitCrc /\ [][NextCrc]_vars

(***************************************************************************)
(* Claims about search_rom on a bus of devices that all answer (Spec)      *)
(***************************************************************************)
Found == { devices[i] : i \in 1..Len(devices) }

\* C1: on a bus of N >= 1 distinct ROM codes with CRC-8 zero, every reset
\* detecting presence and no read timing out, search_rom returns exactly the
\* codes of the bus: each of them once and nothing else.
C1_ReturnsExactlyTheBus ==
  pc = "s_return" => (Found = bus /\ Len(devices) = Cardinality(bus))

\* C2: on such a bus search_rom is done after at most N passes: it never
\* starts a pass beyond the N-th.
C2_AtMostNPasses == passes <= Cardinality(bus)

\* C3: every ROM code search_rom has collected, and so every code it returns,
\* has CRC-8 zero, whatever was read from the line.
C3_ReturnedCrcZero ==
  pc # "s_bit" => \A i \in 1..Len(devices) : crc8(devices[i]) = 0

\* a pass was completed with a ROM whose CRC-8 is not zero, and that ROM was
\* not collected, while a code with CRC-8 zero was
C3_Witness ==
  /\ pc \in {"s_reset", "s_return"}
  /\ bit_pos = 64
  /\ crc8(rom) # 0
  /\ Len(devices) >= 1
  /\ rom \notin Found

(***************************************************************************)
(* Claims about read_temperature, reset and the batch read (SpecMain,      *)
(* SpecDecode)                                                             *)
(***************************************************************************)
\* C4: read_temperature returns a number only if the nine scratchpad bytes
\* it read have CRC-8 zero; with a non-zero CRC it returns None.
C4_NumberOnlyWithValidCrc ==
  pc = "t_return" =>
    /\ temp_c # None => (Len(scratchpad) = 9 /\ crc8(scratchpad) = 0)
    /\ (Len(scratchpad) = 9 /\ crc8(scratchpad) # 0) => temp_c = None

\* the scratchpad of 85 degrees arrived with its last byte corrupted and the
\* call returned None
C4_Witness ==
  /\ pc = "t_return"
  /\ scratchpad = << 80, 5, 75, 70, 127, 255, 12, 16, 29 >>
  /\ temp_c = None

\* C5: in the batch read every sensor is attempted once, in index order,
\* whether the earlier reads returned a value or None: the attempts made so
\* far are those of the indexes 0, 1, 2, ..., the loop is always at the index
\* that follows the attempts made, and it ends with one attempt per sensor.
C5_EverySensorAttempted ==
  /\ \A k \in 1..Len(attempts) : attempts[k].idx = k - 1
  /\ pc \in {"m_loop", "t_reset1", "t_after_reset1", "t_reset2", "t_after_reset2",
             "t_validate", "t_return"} => idx = Len(attempts)
  /\ pc = "m_return" => Len(attempts) = Len(sensors)

\* the batch is over, the first sensor failed and the second was read
C5_Witness ==
  /\ pc = "m_return"
  /\ Len(sensors) >= 2
  /\ attempts[1].temp_c = None
  /\ attempts[2].temp_c # None

\* C6: reset returns true exactly when a response byte was read and its
\* value is in 16..224.
C6_PresenceWindow ==
  pc \in {"s_after_reset", "t_after_reset1", "t_after_reset2"} =>
    (reset_ret <=> (Len(response) = 1 /\ response[1] >= 16 /\ response[1] <= 224))

\* reset has returned true for the response byte 224
C6_Witness ==
  /\ pc = "t_after_reset2"
  /\ response = << 224 >>
  /\ reset_ret

\* C7: the value decoded from the temperature bytes is the two's-complement
\* signed 16-bit reading of byte1 * 256 + byte0, in sixteenths of a degree:
\* 0x0550 gives 1360, a raw value with bit 15 set gives a negative value,
\* 0xFF5E gives -162.
C7_TwosComplement ==
  (pc = "t_return" /\ temp_c # None) =>
    LET u == scratchpad[2] * 256 + scratchpad[1]
    IN  /\ temp_c[1] = (IF u >= 32768 THEN u - 65536 ELSE u)
        /\ temp_c[1] >= -32768 /\ temp_c[1] <= 32767
        /\ u = 1360 => temp_c[1] = 1360
        /\ u >= 32768 => temp_c[1] < 0
        /\ u = 65374 => temp_c[1] = -162

\* the scratchpad with the bytes 0x5E, 0xFF has been decoded to -162 sixteenths
C7_Witness ==
  /\ pc = "t_return"
  /\ scratchpad[1] = 94
  /\ scratchpad[2] = 255
  /\ temp_c = << -162 >>

\* the bus operations of a read of the sensor with ROM r that gets the bytes sp
ExpectedOps(r, sp) ==
  << [op |-> "reset", arg |-> 1], [op |-> "open_data", arg |-> 115200],
     [op |-> "write", arg |-> 85] >>
  \o [i \in 1..8 |-> [op |-> "write", arg |-> r[i]]]
  \o << [op |-> "write", arg |-> 68], [op |-> "wait", arg |-> 750],
        [op |-> "reset", arg |-> 1], [op |-> "open_data", arg |-> 115200],
        [op |-> "write", arg |-> 85] >>
  \o [i \in 1..8 |-> [op |-> "write", arg |-> r[i]]]
  \o << [op |-> "write", arg |-> 190] >>
  \o [k \in 1..9 |-> [op |-> "read", arg |-> sp[k]]]

\* C8: a read_temperature that returns a number has done, in this order:
\* reset, data mode, 0x55, the 8 ROM bytes, 0x44, the wait, reset, data mode,
\* 0x55, the 8 ROM bytes, 0xBE, 9 reads; and no scratchpad byte is ever read
\* before the wait and a successful reset after it.
C8_OrderOfOperations ==
  /\ (pc = "t_return" /\ temp_c # None) =>
       log = ExpectedOps(sensors[idx + 1], scratchpad)
  /\ \A k \in 1..Len(log) :
       log[k].op = "read" =>
         \E w \in 1..(k - 1) :
           /\ log[w].op = "wait"
           /\ \E r \in (w + 1)..(k - 1) : log[r] = [op |-> "reset", arg |-> 1]

\* a read of the second configured sensor has returned 85 degrees
C8_Witness ==
  /\ pc = "t_return"
  /\ idx = 1
  /\ temp_c = << 1360 >>
  /\ Len(log) = 34

\* C9: search_rom and read_temperature begin with reset, every switch to data
\* mode follows a reset that returned true, and after a reset that returned
\* false nothing more is done on the bus in that call: no data-mode channel,
\* no byte written, no second reset; read_temperature then returns None.
C9_AbortOnFailedReset ==
  /\ Len(log) >= 1 => log[1].op = "reset"
  /\ \A k \in 1..Len(log) :
       /\ log[k] = [op |-> "reset", arg |-> 0] => k = Len(log)
       /\ log[k].op = "open_data" => (k > 1 /\ log[k - 1] = [op |-> "reset", arg |-> 1])
  /\ (Len(log) >= 1 /\ log[Len(log)] = [op |-> "reset", arg |-> 0]) =>
       /\ ~(port.is_open /\ port.baudrate = 115200)
       /\ pc \in {"s_after_reset", "s_return", "t_after_reset1", "t_after_reset2",
                  "t_return", "m_loop", "m_return", "exit"}
       /\ pc = "t_return" => temp_c = None

\* read_temperature has returned None after its second reset failed
C9_Witness ==
  /\ pc = "t_return"
  /\ Len(log) = 14
  /\ log[14] = [op |-> "reset", arg |-> 0]
  /\ temp_c = None

\* C10: search_rom and read_temperature never end in an unhandled fault when
\* the device path cannot be opened.
C10_NoUnhandledFault == ~unhandled

(***************************************************************************)
(* Claims about the transport handle (SpecMain)                            *)
(***************************************************************************)
\* C11 as stated: when search_rom or read_temperature has returned, on any
\* exit path, no transport channel is open.
C11_ReleasedOnReturn ==
  pc \in {"s_return", "t_return"} => (channels = 0 /\ ~port.is_open)

\* C11: when the with block of main that ran search_rom or read_temperature
\* has been left, by a return or by an exception, the handle is closed and no
\* transport channel is open; between the return of the operation and the end
\* of the block the channel the operation opened last may still be open.
C11_ReleasedAtExit ==
  pc \in {"exit", "traceback"} => (channels = 0 /\ ~port.is_open)

C11_Witness ==
  /\ pc = "exit"
  /\ port.obj = "Serial"
  /\ port.baudrate = 115200
  /\ io # {}
  /\ channels = 0

\* C12: in every state of any sequence of reset, switch_to_data_mode,
\* search_rom and read_temperature calls on one adapter, at most one transport
\* channel is open, and it is the one the handle holds: a change of speed mode
\* has closed the channel that was open before the new one was opened.
C12_AtMostOneChannel ==
  /\ channels <= 1
  /\ channels = (IF port.is_open THEN 1 ELSE 0)

C12_Witness ==
  /\ pc = "t_after_reset2"
  /\ port.is_open
  /\ port.baudrate = 9600
  /\ channels = 1
  /\ \E e \in io : e.what = "touch" /\ e.is_open /\ e.baudrate = 115200

(***************************************************************************)
(* Claims about the order and the bookkeeping of search_rom (Spec)         *)
(***************************************************************************)
\* a comes before b in the order of the bits from position 0 to 63, 0 before 1
LexLess(a, b) ==
  \E p \in 0..63 :
    /\ GetBit(a, p) < GetBit(b, p)
    /\ \A q \in 0..(p - 1) : GetBit(a, q) = GetBit(b, q)

\* C13: the sequence returned by search_rom is in tree-traversal order: of any
\* two codes in it the one that comes first is the smaller in the order of the
\* bits from position 0 to 63; the first code found is the smallest on the bus.
C13_TreeOrder ==
  pc = "s_return" =>
    /\ \A i \in 1..Len(devices), j \in 1..Len(devices) :
         i < j => LexLess(devices[i], devices[j])
    /\ Len(devices) >= 1 =>
         \A d \in bus : d = devices[1] \/ LexLess(devices[1], d)

(***************************************************************************)
(* Claim about crc8 (SpecCrc)                                              *)
(***************************************************************************)
\* C14: for every byte sequence s, crc8 of s followed by the byte crc8(s) is 0.
\* (crc8 reads its argument and the table only, so the value depends on s
\* alone.)
C14_AppendedCrcIsZero ==
  pc = "c_done" =>
    /\ crc_data[Len(crc_data)] = crc_ret[1]
    /\ crc_ret[2] = 0

C14_Witness ==
  /\ pc = "c_done"
  /\ Len(crc_data) = 8
  /\ crc_data[1] = 40
  /\ crc_ret[1] # 0
  /\ crc_ret[2] = 0

\* the line answers (0,0) at bit_pos: an active device has 0 there, another 1
ReadsDiscrepancy == PullsBit(active, bit_pos) /\ PullsComp(active, bit_pos)

\* C15: in a pass after the first, at a (0,0) reading at a position below the
\* discrepancy cursor carried from the previous pass, the bit chosen and
\* written back is the bit the previous pass chose at that position.
C15_ReplaysPreviousChoice ==
  [][ (pc = "s_bit" /\ passes > 1 /\ ReadsDiscrepancy
         /\ bit_pos < last_discrepancy)
      => GetBit(rom', bit_pos) = GetBit(prev_rom, bit_pos) ]_vars

\* the largest element of a set of positions, 0 for the empty set
SetMax(S) == IF S = {} THEN 0 ELSE CHOOSE m \in S : \A x \in S : x <= m

\* C16: at the end of every completed pass (all 64 positions done) the
\* discrepancy cursor carried to the next pass is the largest position at
\* which the pass read (0,0) and wrote 0, or 0 when there is none: a position
\* marked lower in the pass never replaces one marked higher.
C16_CursorIsLargestPending ==
  /\ (pc = "s_pass_end" /\ bit_pos = 64) => discrepancy = SetMax(chose0)
  /\ (pc \in {"s_reset", "s_after_reset", "s_return"} /\ bit_pos = 64)
       => last_discrepancy = SetMax(chose0)

C16_Witness ==
  /\ pc = "s_reset"
  /\ passes >= 2
  /\ bit_pos = 64
  /\ Cardinality(chose0) >= 2
  /\ \A p \in chose0 : p < SetMax({ b[2] : b \in branches })
  /\ last_discrepancy = SetMax(chose0)
  /\ last_discrepancy > 0

\* C17: when search_rom stops because a completed pass left the discrepancy
\* cursor at 0, no unresolved branch remains: at every position where a pass
\* of the run read (0,0), below the bits written so far in that pass, both
\* the 0-branch and the 1-branch have been taken by a pass of the run.
C17_NoUnresolvedBranch ==
  (pc = "s_return" /\ bit_pos = 64 /\ last_discrepancy = 0)
    => \A b \in branches : << b[1], b[2], 1 - b[3] >> \in branches

(***************************************************************************)
(* Claims about search_rom on a line that may misbehave (SpecNoise)        *)
(***************************************************************************)
\* the running pass is cut short: its reset failed, or a (1,1) reading left
\* the loop over bit_pos
PassCutShort ==
  \/ pc = "s_after_reset" /\ ~reset_ret
  \/ pc = "s_pass_end" /\ last_device

\* C18: when a pass is cut short, by a failed reset at its start or by a (1,1)
\* reading, search_rom returns without another pass and with exactly the codes
\* the earlier passes collected, in order: nothing is added while a pass runs,
\* the ROM of the pass cut short is not added, and nothing follows the return.
C18_CutShortKeepsCollected ==
  [][ /\ PassCutShort => (pc' = "s_return" /\ devices' = devices)
      /\ pc \in {"s_reset", "s_after_reset", "s_bit"} => devices' = devices
      /\ pc = "s_return" => (passes' = passes /\ devices' = devices) ]_vars

C18_Witness ==
  /\ pc = "s_return"
  /\ last_device
  /\ bit_pos > 8
  /\ bit_pos < 64
  /\ rom # ZeroRom
  /\ Len(devices) >= 1
  /\ rom \notin Found

(***************************************************************************)
(* Claims about the exchanges on the line (SpecMain)                       *)
(***************************************************************************)
\* C19: in search_rom and read_temperature the marker byte of reset is written
\* only on a handle open at 9600, and every touch_bit exchange (command bytes,
\* ROM bytes, search bits, scratchpad reads) is made only on a handle open at
\* 115200 and after the reset of the same operation returned true.
C19_ExchangesInTheRightMode ==
  \A e \in io :
    /\ e.what = "marker" => (e.is_open /\ e.baudrate = 9600)
    /\ e.what = "touch" => (e.is_open /\ e.baudrate = 115200 /\ e.reset_ret)

C19_Witness ==
  /\ pc = "t_return"
  /\ temp_c # None
  /\ \E e \in io : e.what = "marker"
  /\ \E e \in io : e.what = "touch"

\* the scratchpad read when none of the 72 read slots gets a byte back
TimedOutScratchpad == [k \in 1..9 |-> read_byte(TimedOutSlots)]

\* C20: when both resets of a read_temperature call detect presence and every
\* read of the scratchpad times out, the call returns a failure and no number.
\* (No sensor of the model sends the bytes that these reads give, so the
\* scratchpad below is the one read from the silent line.)
C20_SilentLineGivesFailure ==
  (pc = "t_return" /\ scratchpad = TimedOutScratchpad) => temp_c = None

====
